---- MODULE Spec2Model ----
(***************************************************************************)
(* Incident-conversation correlation and summarization pipeline of the     *)
(* Teams bot (teams-copilot/src/bot.py): the message recorder, the         *)
(* incident context classifier, the incident message aggregator, the       *)
(* summary trigger with its process-local cache, the summary generator     *)
(* and the summary publisher.                                              *)
(*                                                                         *)
(* The bot is served by aiohttp: every inbound request is a coroutine, and *)
(* coroutines of different requests interleave where a coroutine really    *)
(* suspends.  In the pipeline these places are the classifier's LLM call   *)
(* (ainvoke), the proactive clarification message and the publisher's      *)
(* HTTP POST.  The file read-modify-write of the recorder, the window      *)
(* reader, the aggregator and the (synchronous) generator call run without *)
(* suspension.  One action of the model is one such uninterrupted stretch. *)
(***************************************************************************)
EXTENDS Integers, Sequences, FiniteSets, TLC

\* ------------------------------------------------------------------ bounds

\* Messages recorded after the process started.
MaxNew == 2
\* Request coroutines that may be in flight at the same time.
NumHandlers == 2

\* ------------------------------------------------------- program constants

\* bot.py:1242-1244  "Keep only last 100 messages per conversation"
KeepLast == 100
\* bot.py:1097  "if messages_since_last_summary >= 5"
SummaryThreshold == 5
\* bot.py:978  lookback when no record mentions the incident
Lookback == 20
\* bot.py:931  count: int = 15
RecentCount == 15
\* bot.py:917  "result.confidence >= 7"
MinConfidence == 7
\* bot.py:863  "Confidence level 1-10"
MaxConfidence == 10
\* bot.py:1175  "len(summary) < 30"
MinSummaryLen == 30
\* bot.py:833  "response.status == 200"
HttpOk == 200
\* bot.py:1176  length of the template text without the incident id and the count
TemplateLen == 222
\* bot.py:1194  length of the shortest fallback text without the id and the count
FallbackLen == 84
\* bot.py:1126  length of "No conversation found for " without the incident id
NoConversationLen == 26

\* --------------------------------------------------------------- data sets

Conversations == {"c1", "c2"}
UserNames == {"Alice", "teams-copilot"}
Texts == {"hello", "inc1 is down"}
Incidents == {"INC1", "INC2"}
Handlers == 1..NumHandlers

UNKNOWN_INCIDENT == "UNKNOWN_INCIDENT"
None == "None"

\* str.lower() on the incident ids the model uses.
Lower(s) ==
  CASE s = "INC1" -> "inc1"
    [] s = "INC2" -> "inc2"
    [] OTHER -> s

\* The lower-cased incident tokens that are substrings of a lower-cased text.
TokensIn(text) == IF text = "inc1 is down" THEN {"inc1"} ELSE {}

\* "incident_id.lower() in message_text" (message_text already lower-cased)
MentionsIncident(msg, incident_id) == Lower(incident_id) \in TokensIn(msg.message)

\* A name test that takes no sender for the bot.
IsBotNameNever(user_name) == FALSE

\* "'bot' in user_name or 'teams-copilot' in user_name" on the lower-cased name
IsBotName(user_name) == user_name = "teams-copilot"

Min(S) == CHOOSE x \in S : \A y \in S : x <= y
Max(S) == CHOOSE x \in S : \A y \in S : x >= y

\* s[-n:] for n > 0
LastN(s, n) == IF Len(s) <= n THEN s ELSE SubSeq(s, Len(s) - n + 1, Len(s))
\* s[k:] for k >= 0
From(s, k) == IF k >= Len(s) THEN <<>> ELSE SubSeq(s, k + 1, Len(s))
Front(s) == SubSeq(s, 1, Len(s) - 1)

\* recorded_at of each record, in order (recorded_at identifies a record)
Ids(s) == [i \in 1..Len(s) |-> s[i].recorded_at]

\* the records of s, as a set
IdSet(s) == {s[i].recorded_at : i \in 1..Len(s)}

IsSuffix(s, t) == Len(s) <= Len(t) /\ s = From(t, Len(t) - Len(s))
IsPrefix(s, t) == Len(s) <= Len(t) /\ s = SubSeq(t, 1, Len(s))

\* ------------------------------------------------------------ pure helpers

\* list.sort(key=timestamp) as an insertion sort.  s[1..k] is sorted; the next
\* record that is out of place goes to its place among the records before it.
\* stable: equal keys keep their order (list.sort); otherwise a record goes
\* before the equal keys that precede it (the mirror image, used for
\* reverse=True).
RECURSIVE InsertionSort(_, _, _)
InsertionSort(s, k, stable) ==
  LET n == Len(s)
      OutOfPlace(i) == IF stable THEN s[i - 1].timestamp > s[i].timestamp
                                 ELSE s[i - 1].timestamp >= s[i].timestamp
      bad == {i \in (k + 1)..n : i > 1 /\ OutOfPlace(i)}
  IN  IF bad = {} THEN s
      ELSE LET i == Min(bad)
               Stays(j) == IF stable THEN s[j].timestamp <= s[i].timestamp
                                     ELSE s[j].timestamp < s[i].timestamp
               p == Cardinality({j \in 1..(i - 1) : Stays(j)})
           IN  InsertionSort(SubSeq(s, 1, p) \o <<s[i]>> \o SubSeq(s, p + 1, i - 1)
                               \o SubSeq(s, i + 1, n), i, stable)

Reverse(s) == [i \in 1..Len(s) |-> s[Len(s) + 1 - i]]

\* sort(key=timestamp)
SortByTimestamp(s) == InsertionSort(s, 0, TRUE)

\* sort(key=timestamp, reverse=True): descending, equal keys keep their order
SortByTimestampDescending(s) == Reverse(InsertionSort(s, 0, FALSE))

\* [msg for msg in all_messages if msg.get('conversation_id') == conversation_id]
ConversationMessages(all_messages, conversation_id) ==
  SelectSeq(all_messages, LAMBDA m : m.conversation_id = conversation_id)

OtherMessages(all_messages, conversation_id) ==
  SelectSeq(all_messages, LAMBDA m : m.conversation_id # conversation_id)

UserMessages(s) == SelectSeq(s, LAMBDA m : ~IsBotName(m.user_name))

\* A recorder that keeps the last KeepLast records of the whole file.
AppendAndTruncateLastOverall(all_messages, message_record) ==
  LastN(Append(all_messages, message_record), KeepLast)

\* A recorder that starts from an empty list instead of the file's content.
AppendAndTruncateFromEmpty(all_messages, message_record) == <<message_record>>

\* A recorder that writes the file back without the new record.
AppendAndTruncateDropNew(all_messages, message_record) ==
  LET cid == message_record.conversation_id
      conversation_messages == ConversationMessages(all_messages, cid)
  IN  IF Len(conversation_messages) > KeepLast
      THEN OtherMessages(all_messages, cid) \o LastN(conversation_messages, KeepLast)
      ELSE all_messages

\* A recorder that keeps the first KeepLast records (conversation_messages[:100]).
AppendAndTruncateKeepFirst(all_messages, message_record) ==
  LET appended_all == Append(all_messages, message_record)
      cid == message_record.conversation_id
      conversation_messages == ConversationMessages(appended_all, cid)
  IN  IF Len(conversation_messages) > KeepLast
      THEN OtherMessages(appended_all, cid) \o SubSeq(conversation_messages, 1, KeepLast)
      ELSE appended_all

\* The recorder's read-modify-write of the log: append, then keep only the last
\* KeepLast records of the conversation just written (the retained records of
\* that conversation move to the end of the flat list).
AppendAndTruncate(all_messages, message_record) ==
  LET appended_all == Append(all_messages, message_record)
      cid == message_record.conversation_id
      conversation_messages == ConversationMessages(appended_all, cid)
  IN  IF Len(conversation_messages) > KeepLast
      THEN OtherMessages(appended_all, cid) \o LastN(conversation_messages, KeepLast)
      ELSE appended_all

\* get_recent_conversation_messages: sort descending (stable), take the first
\* count, reverse.
GetRecentConversationMessages(all_messages, conversation_id, count) ==
  LET conversation_messages == ConversationMessages(all_messages, conversation_id)
      descending == SortByTimestampDescending(conversation_messages)
      recent == SubSeq(descending, 1, IF Len(descending) < count THEN Len(descending) ELSE count)
  IN  Reverse(recent)

\* Index (0-based) from which get_incident_related_messages reads the sorted
\* conversation: the first record whose text contains the incident id, else
\* max(0, len - Lookback).
IncidentStartIndex(sorted_messages, incident_id) ==
  LET hits == {i \in 1..Len(sorted_messages) : MentionsIncident(sorted_messages[i], incident_id)}
  IN  IF hits = {}
      THEN (IF Len(sorted_messages) - Lookback > 0 THEN Len(sorted_messages) - Lookback ELSE 0)
      ELSE Min(hits) - 1

\* An aggregator that forgets to sort the conversation by timestamp.
GetIncidentRelatedMessagesUnsorted(all_messages, incident_id, conversation_id) ==
  LET conversation_messages == ConversationMessages(all_messages, conversation_id)
      incident_start_index == IncidentStartIndex(conversation_messages, incident_id)
  IN  UserMessages(From(conversation_messages, incident_start_index))

\* An aggregator with the bot test inverted: it keeps the bot's records.
GetIncidentRelatedMessagesBotOnly(all_messages, incident_id, conversation_id) ==
  LET conversation_messages == SortByTimestamp(ConversationMessages(all_messages, conversation_id))
      incident_start_index == IncidentStartIndex(conversation_messages, incident_id)
  IN  SelectSeq(From(conversation_messages, incident_start_index),
                LAMBDA m : IsBotName(m.user_name))

\* get_incident_related_messages
GetIncidentRelatedMessages(all_messages, incident_id, conversation_id) ==
  LET conversation_messages == SortByTimestamp(ConversationMessages(all_messages, conversation_id))
      incident_start_index == IncidentStartIndex(conversation_messages, incident_id)
  IN  UserMessages(From(conversation_messages, incident_start_index))

\* What the classifier's LLM call can do: raise, or answer with an
\* IncidentContext (bot.py:859-863).
LLMResults ==
  [error : {FALSE}, incident_id : {""} \cup Incidents,
   is_incident_related : BOOLEAN, confidence : 1..MaxConfidence]
  \cup {[error |-> TRUE, incident_id |-> "", is_incident_related |-> FALSE, confidence |-> 1]}

\* The answers the pipeline is run with: every shape of answer, with the
\* confidence on either side of the threshold.
PipelineLLMResults ==
  {r \in LLMResults : r.confidence \in {MinConfidence - 1, MinConfidence} \/ r.error}

\* A classifier that asks for clarification when its LLM call fails.
IncidentDecisionErrorAsUnknown(result) ==
  IF result.error THEN UNKNOWN_INCIDENT
  ELSE IF result.is_incident_related /\ result.confidence >= MinConfidence /\ result.incident_id # ""
       THEN result.incident_id
  ELSE IF result.is_incident_related /\ result.incident_id = ""
       THEN UNKNOWN_INCIDENT
  ELSE None

\* A classifier that takes a related answer without an id for no incident.
IncidentDecisionUnknownAsNone(result) ==
  IF result.error THEN None
  ELSE IF result.is_incident_related /\ result.confidence >= MinConfidence /\ result.incident_id # ""
       THEN result.incident_id
  ELSE None

\* A classifier that adopts only above the threshold (confidence > 7).
IncidentDecisionStrict(result) ==
  IF result.error THEN None
  ELSE IF result.is_incident_related /\ result.confidence > MinConfidence /\ result.incident_id # ""
       THEN result.incident_id
  ELSE IF result.is_incident_related /\ result.incident_id = ""
       THEN UNKNOWN_INCIDENT
  ELSE None

\* The classifier's decision on the structured LLM answer (bot.py:917-925);
\* any exception of the call gives None (bot.py:927-929).
IncidentDecision(result) ==
  IF result.error THEN None
  ELSE IF result.is_incident_related /\ result.confidence >= MinConfidence /\ result.incident_id # ""
       THEN result.incident_id
  ELSE IF result.is_incident_related /\ result.incident_id = ""
       THEN UNKNOWN_INCIDENT
  ELSE None

\* A trigger that needs more than the threshold.
TriggerFiresStrict(current_count, last_summary_count) ==
  current_count - last_summary_count > SummaryThreshold

\* A trigger that ignores the count at the last summary.
TriggerFiresIgnoringLast(current_count, last_summary_count) ==
  current_count >= SummaryThreshold

\* The trigger's test (bot.py:1090-1097)
TriggerFires(current_count, last_summary_count) ==
  current_count - last_summary_count >= SummaryThreshold

\* A trigger that hands the generator the last five messages, whatever the
\* count at the last summary.
RecentIncidentMessagesLastFive(incident_messages, last_summary_count) ==
  LastN(incident_messages, SummaryThreshold)

\* recent_incident_messages = incident_messages[last_summary_count:] (bot.py:1099)
RecentIncidentMessages(incident_messages, last_summary_count) ==
  From(incident_messages, last_summary_count)

\* What the summary LLM call can do: raise, or answer with a text of some length.
SummaryLLMOutcomes ==
  [raised : {FALSE}, length : {0, MinSummaryLen - 1, MinSummaryLen}]
  \cup {[raised |-> TRUE, length |-> 0]}

\* A generator whose fallback text leaves out the message count.
GenerateLLMSummaryNoCount(incident_id, messages, outcome) ==
  IF messages = <<>>
  THEN [kind |-> "no_conversation", incident_id |-> incident_id, count |-> -1,
        length |-> NoConversationLen]
  ELSE IF outcome.raised
  THEN [kind |-> "fallback", incident_id |-> incident_id, count |-> -1,
        length |-> FallbackLen]
  ELSE IF outcome.length < MinSummaryLen
  THEN [kind |-> "template", incident_id |-> incident_id, count |-> Len(messages),
        length |-> TemplateLen]
  ELSE [kind |-> "llm", incident_id |-> "", count |-> -1, length |-> outcome.length]

\* A generator that returns the LLM's answer whatever its length.
GenerateLLMSummaryUnchecked(incident_id, messages, outcome) ==
  IF messages = <<>>
  THEN [kind |-> "no_conversation", incident_id |-> incident_id, count |-> -1,
        length |-> NoConversationLen]
  ELSE IF outcome.raised
  THEN [kind |-> "fallback", incident_id |-> incident_id, count |-> Len(messages),
        length |-> FallbackLen]
  ELSE [kind |-> "llm", incident_id |-> "", count |-> -1, length |-> outcome.length]

\* generate_llm_summary: the text returned, described by its kind, by the
\* incident id and message count written into it (count -1: no count in it)
\* and by its length (for the fixed texts, without the id and the count).
\* outcome.raised stands for any exception of the call or of reading its
\* response (bot.py:1162-1172), all caught at bot.py:1182.
GenerateLLMSummary(incident_id, messages, outcome) ==
  IF messages = <<>>
  THEN [kind |-> "no_conversation", incident_id |-> incident_id, count |-> -1,
        length |-> NoConversationLen]
  ELSE IF outcome.raised
  THEN [kind |-> "fallback", incident_id |-> incident_id, count |-> Len(messages),
        length |-> FallbackLen]
  ELSE IF outcome.length < MinSummaryLen
  THEN [kind |-> "template", incident_id |-> incident_id, count |-> Len(messages),
        length |-> TemplateLen]
  ELSE [kind |-> "llm", incident_id |-> "", count |-> -1, length |-> outcome.length]

\* What the POST to the summary endpoint can do: a response with a status and
\* a body that is JSON or not, or an exception.
PostOutcomes ==
  [kind : {"response"}, status : {HttpOk, 500}, body_is_json : BOOLEAN]
  \cup [kind : {"connect_error", "timeout", "other_error"}, status : {0}, body_is_json : {FALSE}]

\* send_user_summary_to_target_api: the boolean returned (bot.py:833-851;
\* response.json() raising on a 200 is caught by the last except).
SendResult(outcome) ==
  outcome.kind = "response" /\ outcome.status = HttpOk /\ outcome.body_is_json

\* body['from']['id'] of the senders the model uses (bot.py:1210).  Teams user
\* ids and names are not conversation ids.
UserId(user_name) == IF user_name = "Alice" THEN "29:alice" ELSE "28:teams-copilot"

\* ConversationReferenceStore.add_conversation_reference: _references[user_id] = ref
\* (of a reference only its conversation id is kept)
StoreConversationReference(refs, key, conversation_id) ==
  [k \in (DOMAIN refs) \cup {key} |-> IF k = key THEN conversation_id ELSE refs[k]]

\* ConversationReferenceStore.get_conversation_reference: None when the key is
\* not in _references
GetConversationReference(refs, key) == IF key \in DOMAIN refs THEN refs[key] ELSE None

\* turn_state_factory: the reference of the activity's conversation is stored
\* under the sender's id and under the sender's name (bot.py:105-106)
TurnStateFactory(refs, user_id, user_name, conversation_id) ==
  StoreConversationReference(StoreConversationReference(refs, user_id, conversation_id),
                             user_name, conversation_id)

\* ------------------------------------------------------------------- state

VARIABLES
  log,        \* group_messages.json: the flat list of message records
  cache,      \* incident_user_message_cache: incident id -> count at last summary
  task,       \* per request coroutine: where it is suspended, and its locals
  invs,       \* history: one entry per evaluation of the trigger, in order
  appended,   \* history: per conversation, recorded_at of every record ever appended
  clock,      \* number of records ever appended (the next recorded_at is clock + 1)
  recorded,   \* messages recorded since the process started
  analysis,   \* the classifier applied on its own: its LLM answer and its return value
  turns,      \* history: one entry per inbound group message, what its handling did
  references, \* conversation_references.json: key -> conversation of the stored reference
  file_ok,    \* group_messages.json holds a JSON document (FALSE after a torn write)
  sending     \* the publisher applied on its own: its arguments, what the POST did,
              \* the POSTs issued and its return value

vars == <<log, cache, task, invs, appended, clock, recorded, analysis,
          turns, references, file_ok, sending>>

\* The state the pipeline's own specifications leave alone.
tvars == <<turns, references, file_ok, sending>>

\* The log file outlives the process and the cache does not: a process starts
\* with an empty cache over whatever earlier processes recorded.  The model
\* starts over a backlog of in-order user messages: first `others` messages of
\* conversation c2, then n messages of conversation c1, the first of which may
\* name incident INC1.
Backlog(n, first_mentions, others) ==
  [i \in 1..(others + n) |->
     [timestamp |-> i, user_name |-> "Alice",
      message |-> IF first_mentions /\ i = others + 1 THEN "inc1 is down" ELSE "hello",
      conversation_id |-> IF i <= others THEN "c2" ELSE "c1", recorded_at |-> i]]

InitLogs ==
  { Backlog(0, FALSE, 0),
    Backlog(SummaryThreshold - 1, FALSE, 0),
    Backlog(SummaryThreshold - 1, TRUE, 0),
    Backlog(Lookback - 1, FALSE, 0),
    Backlog(KeepLast - 1, FALSE, 1) }

NoSummary == [kind |-> "none", incident_id |-> "", count |-> -1, length |-> 0]

IdleTask ==
  [pc |-> "idle", conversation_id |-> "", detected_incident |-> None,
   current_count |-> 0, last_summary_count |-> 0, summary |-> NoSummary, inv |-> 0]

NoSending ==
  [incident_id |-> "", summary |-> NoSummary,
   outcome |-> [kind |-> "none", status |-> 0, body_is_json |-> FALSE],
   posts |-> 0, returned |-> "pending"]

NoAnalysis ==
  [result |-> [error |-> TRUE, incident_id |-> "", is_incident_related |-> FALSE, confidence |-> 1],
   returned |-> "pending"]

Init ==
  /\ log \in InitLogs
  /\ cache = <<>>
  /\ task = [h \in Handlers |-> IdleTask]
  /\ invs = <<>>
  /\ appended = [c \in Conversations |-> Ids(ConversationMessages(log, c))]
  /\ clock = Len(log)
  /\ recorded = 0
  /\ analysis = NoAnalysis
  /\ turns = <<>>
  /\ references = <<>>
  /\ file_ok = TRUE
  /\ sending = NoSending

\* incident_user_message_cache.get(incident_id, 0)
CacheGet(c, incident_id) == IF incident_id \in DOMAIN c THEN c[incident_id] ELSE 0

\* incident_user_message_cache[incident_id] = count
CachePut(c, incident_id, count) ==
  [i \in (DOMAIN c) \cup {incident_id} |-> IF i = incident_id THEN count ELSE c[i]]

\* A cache written whatever the publisher returned.
CacheAfterSendAlways(c, incident_id, current_count, success) ==
  CachePut(c, incident_id, current_count)

\* A cache advanced by the threshold instead of set to the current count.
CacheAfterSendByThreshold(c, incident_id, current_count, success) ==
  IF success THEN CachePut(c, incident_id, CacheGet(c, incident_id) + SummaryThreshold) ELSE c

\* bot.py:1105-1112: the cache after the publisher returned
CacheAfterSend(c, incident_id, current_count, success) ==
  IF success THEN CachePut(c, incident_id, current_count) ELSE c

\* The inbound activity bodies: sender, text, conversation and timestamp.  A
\* timestamp is the arrival order (clock + 1) or 0: a body without a timestamp
\* (''), or one stamped before everything else in the log.
Bodies(now) ==
  [user_name : UserNames, message : Texts, conversation_id : Conversations,
   timestamp : {0, now}]

MessageRecord(body, now) ==
  [timestamp |-> body.timestamp, user_name |-> body.user_name,
   message |-> body.message, conversation_id |-> body.conversation_id,
   recorded_at |-> now]

\* ----------------------------------------------------------------- actions

\* record_group_message up to the first suspension: the record is appended
\* and the file rewritten; for a user message check_and_send_llm_incident_summary
\* starts, reads the recent window and suspends in the classifier's LLM call.
RecordAndStartCheck(h, body) ==
  LET message_record == MessageRecord(body, clock + 1)
      all_messages == AppendAndTruncate(log, message_record)
      recent_messages ==
        GetRecentConversationMessages(all_messages, body.conversation_id, RecentCount)
  IN  /\ task[h].pc = "idle"
      /\ \A g \in Handlers : g < h => task[g].pc # "idle"
      /\ log' = all_messages
      /\ clock' = clock + 1
      /\ recorded' = recorded + 1
      /\ appended' = [appended EXCEPT ![body.conversation_id] = Append(@, clock + 1)]
      /\ task' = IF IsBotName(body.user_name) \/ recent_messages = <<>>
                 THEN task
                 ELSE [task EXCEPT ![h] = [IdleTask EXCEPT !.pc = "classify",
                                             !.conversation_id = body.conversation_id]]
      /\ UNCHANGED <<cache, invs, analysis>>

\* The same for at most MaxNew messages since the process started.
RecordGroupMessage(h, body) ==
  /\ recorded < MaxNew
  /\ RecordAndStartCheck(h, body)

\* The classifier's LLM call returns (or raises).  Unknown incident: the
\* clarification is sent (suspension).  No incident: done.  Otherwise the
\* aggregator, the trigger and, if it fires, the generator run, and the
\* coroutine suspends in the publisher's POST.
CheckAfterAnalyze(h, result) ==
  LET detected_incident == IncidentDecision(result)
      cid == task[h].conversation_id
      incident_messages == GetIncidentRelatedMessages(log, detected_incident, cid)
      current_count == Len(incident_messages)
      last_summary_count == CacheGet(cache, detected_incident)
      fires == incident_messages # <<>> /\ TriggerFires(current_count, last_summary_count)
      recent_incident_messages ==
        RecentIncidentMessages(incident_messages, last_summary_count)
      entry == [conversation_id |-> cid, incident_id |-> detected_incident,
                out |-> Ids(incident_messages),
                last |-> last_summary_count, cur |-> current_count,
                fired |-> fires, batch |-> <<>>, summary |-> NoSummary,
                result |-> "none"]
  IN  /\ task[h].pc = "classify"
      /\ IF detected_incident = UNKNOWN_INCIDENT
         THEN /\ task' = [task EXCEPT ![h].pc = "clarify"]
              /\ UNCHANGED invs
         ELSE IF detected_incident = None
         THEN /\ task' = [task EXCEPT ![h] = IdleTask]
              /\ UNCHANGED invs
         ELSE IF ~fires
         THEN /\ task' = [task EXCEPT ![h] = IdleTask]
              /\ invs' = Append(invs, entry)
         ELSE \E summary_outcome \in SummaryLLMOutcomes :
                LET summary == GenerateLLMSummary(detected_incident,
                                                  recent_incident_messages, summary_outcome)
                IN  /\ invs' = Append(invs,
                          [entry EXCEPT !.batch = Ids(recent_incident_messages),
                                        !.summary = summary, !.result = "pending"])
                    /\ task' = [task EXCEPT ![h] =
                                  [pc |-> "publish", conversation_id |-> cid,
                                   detected_incident |-> detected_incident,
                                   current_count |-> current_count,
                                   last_summary_count |-> last_summary_count,
                                   summary |-> summary, inv |-> Len(invs) + 1]]
      /\ UNCHANGED <<log, cache, appended, clock, recorded, analysis>>

\* send_bot_clarification_message returned.
CheckAfterClarification(h) ==
  /\ task[h].pc = "clarify"
  /\ task' = [task EXCEPT ![h] = IdleTask]
  /\ UNCHANGED <<log, cache, invs, appended, clock, recorded, analysis>>

\* send_user_summary_to_target_api returned: on success the cache is set to
\* the count this coroutine computed before it suspended.
CheckAfterSend(h, outcome) ==
  LET success == SendResult(outcome)
  IN  /\ task[h].pc = "publish"
      /\ cache' = CacheAfterSend(cache, task[h].detected_incident, task[h].current_count, success)
      /\ invs' = [invs EXCEPT ![task[h].inv].result = IF success THEN "ok" ELSE "fail"]
      /\ task' = [task EXCEPT ![h] = IdleTask]
      /\ UNCHANGED <<log, appended, clock, recorded, analysis>>

Next ==
  \E h \in Handlers :
    \/ \E body \in Bodies(clock + 1) : RecordGroupMessage(h, body) /\ UNCHANGED tvars
    \/ \E result \in PipelineLLMResults : CheckAfterAnalyze(h, result) /\ UNCHANGED tvars
    \/ CheckAfterClarification(h) /\ UNCHANGED tvars
    \/ \E outcome \in PostOutcomes : CheckAfterSend(h, outcome) /\ UNCHANGED tvars

Spec == Init /\ [][Next]_vars

\* Requests handled one after the other: a message is recorded only when no
\* other request is in flight.
SeqRecordGroupMessage(h, body) ==
  /\ \A g \in Handlers : task[g].pc = "idle"
  /\ RecordGroupMessage(h, body)

NextSeq ==
  \E h \in Handlers :
    \/ \E body \in Bodies(clock + 1) : SeqRecordGroupMessage(h, body) /\ UNCHANGED tvars
    \/ \E result \in PipelineLLMResults : CheckAfterAnalyze(h, result) /\ UNCHANGED tvars
    \/ CheckAfterClarification(h) /\ UNCHANGED tvars
    \/ \E outcome \in PostOutcomes : CheckAfterSend(h, outcome) /\ UNCHANGED tvars

SpecSeq == Init /\ [][NextSeq]_vars

\* The classifier on its own: analyze_conversation_for_incident applied to
\* every answer the LLM call can give.
InitAnalysis ==
  /\ log = <<>>
  /\ cache = <<>>
  /\ task = [h \in Handlers |-> IdleTask]
  /\ invs = <<>>
  /\ appended = [c \in Conversations |-> <<>>]
  /\ clock = 0
  /\ recorded = 0
  /\ analysis \in [result : LLMResults, returned : {"pending"}]
  /\ turns = <<>>
  /\ references = <<>>
  /\ file_ok = TRUE
  /\ sending = NoSending

AnalyzeConversationForIncident ==
  /\ analysis.returned = "pending"
  /\ analysis' = [analysis EXCEPT !.returned = IncidentDecision(analysis.result)]
  /\ UNCHANGED <<log, cache, task, invs, appended, clock, recorded>>

NextAnalysis == AnalyzeConversationForIncident /\ UNCHANGED tvars

SpecAnalysis == InitAnalysis /\ [][NextAnalysis]_vars

\* ---------------------------------------------------------- the whole turn

\* logged_process for a group-chat activity: record_group_message runs (the
\* pipeline above), then the turn answers 200 when the bot is not mentioned
\* and otherwise goes on to the original process, whose turn_state_factory
\* stores the conversation reference.  turns keeps, per inbound activity, what
\* its handling did.

\* An inbound group-chat activity: its body, and whether one of its entities
\* mentions the bot (bot.py:287-307).
Activities(now) == [body : Bodies(now), bot_mentioned : BOOLEAN]

\* The activities, classifier answers and endpoint answers the whole-turn
\* specifications run with: one conversation with timestamps in arrival order,
\* every decision of the classifier (an error, not related, related without an
\* id, an id below and at the confidence threshold), and the endpoint
\* accepting or refusing the summary.
TurnActivities(now) ==
  {a \in Activities(now) : a.body.conversation_id = "c1" /\ a.body.timestamp = now}
TurnPostOutcomes == {o \in PostOutcomes : o.kind = "response" /\ o.body_is_json}
TurnLLMResults ==
  {r \in PipelineLLMResults :
     \/ r.error
     \/ r.incident_id = "INC1" /\ r.is_incident_related
     \/ r.incident_id = "" /\ r.confidence = MinConfidence}

NoResult ==
  [error |-> FALSE, incident_id |-> "", is_incident_related |-> FALSE, confidence |-> 0]
NoSummaryOutcome == [raised |-> FALSE, length |-> -1]
NoPost == [kind |-> "none", status |-> 0, body_is_json |-> FALSE]

NewTurn(h, activity, now) ==
  [id |-> now, user_name |-> activity.body.user_name,
   conversation_id |-> activity.body.conversation_id,
   bot_mentioned |-> activity.bot_mentioned, handler |-> h,
   stage |-> "pipeline", trace |-> <<>>, visible |-> TRUE,
   result |-> NoResult, detected_incident |-> None, clarification |-> "none",
   summary_outcome |-> NoSummaryOutcome, summary |-> NoSummary, batch |-> <<>>,
   post_outcome |-> NoPost, success |-> FALSE, cache_changed |-> FALSE,
   reference_stored |-> FALSE, fired |-> FALSE, failure |-> "none",
   conversation_type |-> "groupChat", processed |-> 0]

\* A turn that goes on to the original process whether the bot is mentioned
\* or not.
EndStageAlwaysReturned(bot_mentioned) == "returned"

\* Where the turn is once record_group_message has returned (bot.py:318-322).
EndStage(bot_mentioned) == IF bot_mentioned THEN "returned" ELSE "responded"

\* The turn whose pipeline runs in coroutine h.
TurnOf(h) == CHOOSE k \in DOMAIN turns : turns[k].handler = h /\ turns[k].stage = "pipeline"

\* logged_process up to the first suspension of record_group_message.
LoggedProcess(h, activity) ==
  LET body == activity.body
      now == clock + 1
  IN  /\ file_ok
      /\ RecordGroupMessage(h, body)
      /\ turns' = Append(turns,
           [NewTurn(h, activity, now) EXCEPT
              !.stage = IF task'[h].pc = "classify" THEN "pipeline"
                        ELSE EndStage(activity.bot_mentioned),
              !.trace = <<"append">>
                        \o (IF IsBotName(body.user_name) THEN <<>> ELSE <<"window">>)
                        \o (IF task'[h].pc = "classify" THEN <<"classify">> ELSE <<>>),
              !.visible = now \in IdSet(log'),
              !.cache_changed = cache' # cache])
      /\ UNCHANGED <<references, file_ok, sending>>

\* The classifier's call returned to the turn in coroutine h; when the
\* generator runs, its LLM call does summary_outcome.
TurnAfterAnalyze(h, result, summary_outcome) ==
  LET k == TurnOf(h)
      cid == task[h].conversation_id
      detected_incident == IncidentDecision(result)
      adopted == detected_incident \notin {None, UNKNOWN_INCIDENT}
      conv_ref == GetConversationReference(references, cid)
      incident_messages == GetIncidentRelatedMessages(log, detected_incident, cid)
      recent_incident_messages ==
        RecentIncidentMessages(incident_messages, CacheGet(cache, detected_incident))
      published == task'[h].pc = "publish"
  IN  /\ file_ok \/ ~adopted
      /\ CheckAfterAnalyze(h, result)
      /\ IF published
         THEN /\ summary_outcome \in SummaryLLMOutcomes
              /\ task'[h].summary = GenerateLLMSummary(detected_incident,
                                       recent_incident_messages, summary_outcome)
         ELSE summary_outcome = NoSummaryOutcome
      /\ turns' = [turns EXCEPT ![k] =
           [@ EXCEPT
              !.result = result,
              !.detected_incident = detected_incident,
              !.clarification = IF detected_incident # UNKNOWN_INCIDENT THEN "none"
                                ELSE IF conv_ref = None THEN "no_reference"
                                ELSE "sending",
              !.trace = @ \o (IF detected_incident = UNKNOWN_INCIDENT THEN <<"clarify">>
                              ELSE IF ~adopted THEN <<>>
                              ELSE <<"aggregate">>
                                   \o (IF incident_messages # <<>> THEN <<"trigger">> ELSE <<>>)
                                   \o (IF published THEN <<"generate", "post">> ELSE <<>>)),
              !.reference_stored =
                 GetConversationReference(references, turns[k].user_name) = cid,
              !.visible = @ /\ (adopted => turns[k].id \in IdSet(log)),
              !.fired = /\ adopted
                        /\ incident_messages # <<>>
                        /\ TriggerFires(Len(incident_messages),
                                        CacheGet(cache, detected_incident)),
              !.summary_outcome = summary_outcome,
              !.summary = IF published THEN task'[h].summary ELSE NoSummary,
              !.batch = IF published THEN Ids(recent_incident_messages) ELSE <<>>,
              !.stage = IF task'[h].pc = "idle" THEN EndStage(turns[k].bot_mentioned)
                        ELSE "pipeline",
              !.cache_changed = @ \/ cache' # cache]]
      /\ UNCHANGED <<references, file_ok, sending>>

\* send_bot_clarification_message returned: with a reference found, the
\* proactive message was delivered or continue_conversation raised (caught at
\* bot.py:1040).
TurnAfterClarification(h, delivered) ==
  LET k == TurnOf(h)
  IN  /\ CheckAfterClarification(h)
      /\ turns[k].clarification = "sending" \/ ~delivered
      /\ turns' = [turns EXCEPT ![k] =
           [@ EXCEPT
              !.clarification = IF @ # "sending" THEN @
                                ELSE IF delivered THEN "sent" ELSE "error",
              !.stage = EndStage(turns[k].bot_mentioned),
              !.cache_changed = @ \/ cache' # cache]]
      /\ UNCHANGED <<references, file_ok, sending>>

\* send_user_summary_to_target_api returned to the turn in coroutine h.
TurnAfterSend(h, outcome) ==
  LET k == TurnOf(h)
  IN  /\ CheckAfterSend(h, outcome)
      /\ turns' = [turns EXCEPT ![k] =
           [@ EXCEPT
              !.post_outcome = outcome,
              !.success = (invs'[task[h].inv].result = "ok"),
              !.stage = EndStage(turns[k].bot_mentioned),
              !.cache_changed = @ \/ cache' # cache]]
      /\ UNCHANGED <<references, file_ok, sending>>

\* The original process of a turn that mentions the bot: turn_state_factory
\* stores the conversation reference under the sender's id and name.
OriginalProcess(k) ==
  /\ turns[k].stage = "returned"
  /\ references' = TurnStateFactory(references, UserId(turns[k].user_name),
                                    turns[k].user_name, turns[k].conversation_id)
  /\ turns' = [turns EXCEPT ![k].stage = "processed", ![k].processed = @ + 1]
  /\ UNCHANGED <<log, cache, task, invs, appended, clock, recorded, analysis, file_ok, sending>>

InitTurnLogs ==
  { Backlog(0, FALSE, 0),
    Backlog(SummaryThreshold - 1, FALSE, 0),
    Backlog(SummaryThreshold - 1, TRUE, 0) }

InitTurn ==
  /\ log \in InitTurnLogs
  /\ cache = <<>>
  /\ task = [h \in Handlers |-> IdleTask]
  /\ invs = <<>>
  /\ appended = [c \in Conversations |-> Ids(ConversationMessages(log, c))]
  /\ clock = Len(log)
  /\ recorded = 0
  /\ analysis = NoAnalysis
  /\ turns = <<>>
  /\ references = <<>>
  /\ file_ok = TRUE
  /\ sending = NoSending

NextTurn ==
  \/ \E h \in Handlers :
       \/ \E activity \in TurnActivities(clock + 1) : LoggedProcess(h, activity)
       \/ \E result \in TurnLLMResults :
            \E summary_outcome \in SummaryLLMOutcomes \cup {NoSummaryOutcome} :
              TurnAfterAnalyze(h, result, summary_outcome)
       \/ \E delivered \in BOOLEAN : TurnAfterClarification(h, delivered)
       \/ \E outcome \in TurnPostOutcomes : TurnAfterSend(h, outcome)
  \/ \E k \in DOMAIN turns : OriginalProcess(k)

SpecTurn == InitTurn /\ [][NextTurn]_vars

\* -------------------------------------------- the turn of any conversation

\* Activities of conversations that are not group chats, handled since the
\* process started.
MaxOther == 1

\* conversation.conversationType of an activity that is not a group chat: a
\* one-to-one chat or a channel (bot.py:279, 324).
OtherConversationTypes == {"personal", "channel"}

\* logged_process for an activity that is not of a group chat: nothing is
\* recorded and the turn goes on to the original process (bot.py:279-336).
LoggedProcessOther(activity, conversation_type) ==
  /\ Cardinality({k \in DOMAIN turns : turns[k].conversation_type # "groupChat"}) < MaxOther
  /\ turns' = Append(turns,
       [NewTurn(0, activity, 0) EXCEPT
          !.conversation_type = conversation_type,
          !.stage = "returned",
          !.visible = FALSE])
  /\ UNCHANGED <<log, cache, task, invs, appended, clock, recorded, analysis,
                 references, file_ok, sending>>

\* The activities the routing is run with, with or without a mention of the
\* bot: group messages of conversation c1 from either sender, and messages of
\* the user in conversation c2, which is not a group chat.
RouteActivities(now) == {a \in TurnActivities(now) : a.body.message = "hello"}
OtherActivities(now) ==
  {a \in Activities(now) : /\ a.body.conversation_id = "c2"
                           /\ a.body.user_name = "Alice"
                           /\ a.body.message = "hello"
                           /\ a.body.timestamp = now}

\* The answers of the classifier the routing is run with: an error, and a
\* related answer without an incident id.
RouteLLMResults == {r \in TurnLLMResults : r.error \/ r.incident_id = ""}

InitRoute ==
  /\ log = <<>>
  /\ cache = <<>>
  /\ task = [h \in Handlers |-> IdleTask]
  /\ invs = <<>>
  /\ appended = [c \in Conversations |-> <<>>]
  /\ clock = 0
  /\ recorded = 0
  /\ analysis = NoAnalysis
  /\ turns = <<>>
  /\ references = <<>>
  /\ file_ok = TRUE
  /\ sending = NoSending

NextRoute ==
  \/ \E h \in Handlers :
       \/ \E activity \in RouteActivities(clock + 1) : LoggedProcess(h, activity)
       \/ \E result \in RouteLLMResults : TurnAfterAnalyze(h, result, NoSummaryOutcome)
       \/ \E delivered \in BOOLEAN : TurnAfterClarification(h, delivered)
  \/ \E activity \in OtherActivities(clock + 1), conversation_type \in OtherConversationTypes :
       LoggedProcessOther(activity, conversation_type)
  \/ \E k \in DOMAIN turns : OriginalProcess(k)

SpecRoute == InitRoute /\ [][NextRoute]_vars

\* ------------------------------------------------- the turn with failing I/O

\* The places of the pipeline where an exception can be raised.  log_read is
\* any error of reading group_messages.json in the recorder other than
\* FileNotFoundError (which bot.py:1235 turns into an empty log).
FailurePoints ==
  {"log_read", "log_write", "window_read", "classifier", "aggregator_read",
   "generator", "publisher", "clarification"}

\* A pipeline whose recorder guards its file accesses with the inline
\* FileNotFoundError handler only.
CaughtInInlineOnly(point) ==
  CASE point = "log_read" -> "none"
    [] point = "log_write" -> "none"
    [] point = "window_read" -> "get_recent_conversation_messages"
    [] point = "classifier" -> "analyze_conversation_for_incident"
    [] point = "aggregator_read" -> "get_incident_related_messages"
    [] point = "generator" -> "generate_llm_summary"
    [] point = "publisher" -> "send_user_summary_to_target_api"
    [] OTHER -> "send_bot_clarification_message"

\* The function whose except clause handles an exception raised at a point
\* ("none": it leaves record_group_message): bot.py:1270, 1270, 950, 927, 992,
\* 1182, 843-851, 1040.
CaughtIn(point) ==
  CASE point = "log_read" -> "record_group_message"
    [] point = "log_write" -> "record_group_message"
    [] point = "window_read" -> "get_recent_conversation_messages"
    [] point = "classifier" -> "analyze_conversation_for_incident"
    [] point = "aggregator_read" -> "get_incident_related_messages"
    [] point = "generator" -> "generate_llm_summary"
    [] point = "publisher" -> "send_user_summary_to_target_api"
    [] OTHER -> "send_bot_clarification_message"

\* Where the turn is after an exception at a point.
StageAfterFailure(point, bot_mentioned) ==
  IF CaughtIn(point) = "none" THEN "raised" ELSE EndStage(bot_mentioned)

\* record_group_message with a file access that raises.  log_read: the file
\* cannot be read or parsed, nothing is appended.  log_write: the file is left
\* as it was (it could not be opened) or torn (truncated by open(.., 'w'), then
\* json.dump failed).  window_read: the record is written, then the read of
\* get_recent_conversation_messages raises and the analysis stops on an empty
\* window.
RecordFails(h, activity, point, torn) ==
  LET body == activity.body
      now == clock + 1
      written == point = "window_read"
  IN  /\ task[h].pc = "idle"
      /\ \A g \in Handlers : g < h => task[g].pc # "idle"
      /\ recorded < MaxNew
      /\ point \in {"log_read", "log_write", "window_read"}
      /\ point # "log_read" => file_ok
      /\ point = "window_read" => ~IsBotName(body.user_name)
      /\ torn => point = "log_write"
      /\ log' = IF written THEN AppendAndTruncate(log, MessageRecord(body, now))
                ELSE IF torn THEN <<>> ELSE log
      /\ file_ok' = (file_ok /\ ~torn)
      /\ appended' = IF written
                     THEN [appended EXCEPT ![body.conversation_id] = Append(@, now)]
                     ELSE appended
      /\ clock' = clock + 1
      /\ recorded' = recorded + 1
      /\ turns' = Append(turns,
           [NewTurn(h, activity, now) EXCEPT
              !.failure = point,
              !.stage = StageAfterFailure(point, activity.bot_mentioned),
              !.trace = IF written THEN <<"append", "window">> ELSE <<>>,
              !.visible = written])
      /\ UNCHANGED <<cache, task, invs, analysis, references, sending>>

\* The classifier adopted an incident and the read of
\* get_incident_related_messages raises: no messages, the handling ends.
AggregatorFails(h, result) ==
  LET k == TurnOf(h)
      detected_incident == IncidentDecision(result)
  IN  /\ task[h].pc = "classify"
      /\ detected_incident \notin {None, UNKNOWN_INCIDENT}
      /\ task' = [task EXCEPT ![h] = IdleTask]
      /\ turns' = [turns EXCEPT ![k] =
           [@ EXCEPT
              !.result = result,
              !.detected_incident = detected_incident,
              !.failure = "aggregator_read",
              !.trace = @ \o <<"aggregate">>,
              !.stage = StageAfterFailure("aggregator_read", turns[k].bot_mentioned)]]
      /\ UNCHANGED <<log, cache, invs, appended, clock, recorded, analysis,
                     references, file_ok, sending>>

\* The endpoint accepts the summary, or the POST times out.
FailPostOutcomes == {o \in PostOutcomes : SendResult(o) \/ o.kind = "timeout"}

NextFail ==
  \/ \E h \in Handlers :
       \/ \E activity \in TurnActivities(clock + 1) : LoggedProcess(h, activity)
       \/ \E activity \in TurnActivities(clock + 1) :
            \E point \in FailurePoints, torn \in BOOLEAN :
              RecordFails(h, activity, point, torn)
       \/ \E result \in TurnLLMResults :
            \E summary_outcome \in SummaryLLMOutcomes \cup {NoSummaryOutcome} :
              TurnAfterAnalyze(h, result, summary_outcome)
       \/ \E result \in TurnLLMResults : AggregatorFails(h, result)
       \/ \E delivered \in BOOLEAN : TurnAfterClarification(h, delivered)
       \/ \E outcome \in FailPostOutcomes : TurnAfterSend(h, outcome)
  \/ \E k \in DOMAIN turns : OriginalProcess(k)

SpecFail == InitTurn /\ [][NextFail]_vars

\* ------------------------------------------------- the five-message scenario

\* A conversation that starts from an empty log and an empty cache: five user
\* messages in arrival order, the first of which names the incident; the
\* classifier adopts that incident on every message and the endpoint accepts
\* every summary.  The handlings interleave as requests do.
ScenarioBody(n, now) ==
  [user_name |-> "Alice", message |-> IF n = 1 THEN "inc1 is down" ELSE "hello",
   conversation_id |-> "c1", timestamp |-> now]

ScenarioLLMResults == {r \in PipelineLLMResults : IncidentDecision(r) = "INC1"}
ScenarioPostOutcomes == {o \in PostOutcomes : SendResult(o)}

ScenarioRecord(h) ==
  /\ recorded < SummaryThreshold
  /\ RecordAndStartCheck(h, ScenarioBody(recorded + 1, clock + 1))

InitScenario ==
  /\ log = <<>>
  /\ cache = <<>>
  /\ task = [h \in Handlers |-> IdleTask]
  /\ invs = <<>>
  /\ appended = [c \in Conversations |-> <<>>]
  /\ clock = 0
  /\ recorded = 0
  /\ analysis = NoAnalysis
  /\ turns = <<>>
  /\ references = <<>>
  /\ file_ok = TRUE
  /\ sending = NoSending

NextScenario ==
  \E h \in Handlers :
    \/ ScenarioRecord(h) /\ UNCHANGED tvars
    \/ \E result \in ScenarioLLMResults : CheckAfterAnalyze(h, result) /\ UNCHANGED tvars
    \/ \E outcome \in ScenarioPostOutcomes : CheckAfterSend(h, outcome) /\ UNCHANGED tvars

SpecScenario == InitScenario /\ [][NextScenario]_vars

\* ------------------------------------------------- the publisher on its own

\* send_user_summary_to_target_api applied to every summary the generator can
\* return for a batch of five or six messages and to everything the POST can do.
SendSummaries ==
  {GenerateLLMSummary(incident_id, Backlog(n, TRUE, 0), outcome) :
     incident_id \in Incidents, n \in {SummaryThreshold, SummaryThreshold + 1},
     outcome \in SummaryLLMOutcomes}

InitSend ==
  /\ log = <<>>
  /\ cache = <<>>
  /\ task = [h \in Handlers |-> IdleTask]
  /\ invs = <<>>
  /\ appended = [c \in Conversations |-> <<>>]
  /\ clock = 0
  /\ recorded = 0
  /\ analysis = NoAnalysis
  /\ turns = <<>>
  /\ references = <<>>
  /\ file_ok = TRUE
  /\ sending \in [incident_id : Incidents, summary : SendSummaries,
                  outcome : PostOutcomes, posts : {0}, returned : {"pending"}]

\* One POST is issued (bot.py:824); True is returned at bot.py:837, False at
\* bot.py:841-851.
SendUserSummaryToTargetApi ==
  /\ sending.returned = "pending"
  /\ sending' = [sending EXCEPT !.posts = @ + 1,
                                !.returned = IF SendResult(sending.outcome)
                                             THEN "True" ELSE "False"]
  /\ UNCHANGED <<log, cache, task, invs, appended, clock, recorded, analysis,
                 turns, references, file_ok>>

NextSend == SendUserSummaryToTargetApi

SpecSend == InitSend /\ [][NextSend]_vars

\* ------------------------------------------------------ a long conversation

\* Messages recorded in the long conversation after the process started.
MaxLong == 10

\* A conversation that goes on: user messages of one conversation in arrival
\* order, each naming the incident or not, handled one after the other; the
\* classifier adopts the same incident on every message and the endpoint
\* accepts every summary.  The process starts over an empty log, over 19
\* messages none of which names the incident, or over 99 messages the first of
\* which names it.
LongBody(text, now) ==
  [user_name |-> "Alice", message |-> text, conversation_id |-> "c1", timestamp |-> now]

LongRecord(h, text) ==
  /\ recorded < MaxLong
  /\ \A g \in Handlers : task[g].pc = "idle"
  /\ RecordAndStartCheck(h, LongBody(text, clock + 1))

InitLongLogs ==
  { Backlog(0, FALSE, 0),
    Backlog(Lookback - 1, FALSE, 0),
    Backlog(KeepLast - 1, TRUE, 0) }

InitLong ==
  /\ log \in InitLongLogs
  /\ cache = <<>>
  /\ task = [h \in Handlers |-> IdleTask]
  /\ invs = <<>>
  /\ appended = [c \in Conversations |-> Ids(ConversationMessages(log, c))]
  /\ clock = Len(log)
  /\ recorded = 0
  /\ analysis = NoAnalysis
  /\ turns = <<>>
  /\ references = <<>>
  /\ file_ok = TRUE
  /\ sending = NoSending

NextLong ==
  \E h \in Handlers :
    \/ \E text \in Texts : LongRecord(h, text) /\ UNCHANGED tvars
    \/ \E result \in ScenarioLLMResults : CheckAfterAnalyze(h, result) /\ UNCHANGED tvars
    \/ \E outcome \in ScenarioPostOutcomes : CheckAfterSend(h, outcome) /\ UNCHANGED tvars

SpecLong == InitLong /\ [][NextLong]_vars

\* ------------------------------------------------- two conversations at the cap

\* The pipeline over a log in which the records of two conversations are
\* interleaved: records 1 and 3 are of conversation c2, the n others of c1.
CapBacklog(n) ==
  [i \in 1..(n + 2) |->
     [timestamp |-> i, user_name |-> "Alice", message |-> "hello",
      conversation_id |-> IF i \in {1, 3} THEN "c2" ELSE "c1", recorded_at |-> i]]

InitCap ==
  /\ log \in {CapBacklog(KeepLast - 1), CapBacklog(KeepLast)}
  /\ cache = <<>>
  /\ task = [h \in Handlers |-> IdleTask]
  /\ invs = <<>>
  /\ appended = [c \in Conversations |-> Ids(ConversationMessages(log, c))]
  /\ clock = Len(log)
  /\ recorded = 0
  /\ analysis = NoAnalysis
  /\ turns = <<>>
  /\ references = <<>>
  /\ file_ok = TRUE
  /\ sending = NoSending

SpecCap == InitCap /\ [][Next]_vars

\* ------------------------------------------------------------------ claims

\* The sorted, bot-filtered records of a conversation, and the aggregator's
\* output on the log as it stands.
Chronological(c) == SortByTimestamp(ConversationMessages(log, c))
Aggregated(incident_id, c) == GetIncidentRelatedMessages(log, incident_id, c)

\* The trigger evaluation before j for the same conversation and incident (0: none).
Previous(j) ==
  LET same == {i \in 1..(j - 1) : /\ invs[i].conversation_id = invs[j].conversation_id
                                  /\ invs[i].incident_id = invs[j].incident_id}
  IN  IF same = {} THEN 0 ELSE Max(same)

\* The trigger evaluation before j for the same incident, in any conversation.
PreviousForIncident(j) ==
  LET same == {i \in 1..(j - 1) : invs[i].incident_id = invs[j].incident_id}
  IN  IF same = {} THEN 0 ELSE Max(same)

\* C1: after any sequence of appends, the records the log retains for each
\* conversation are exactly the last min(n, 100) records appended for it, in
\* insertion order (so never more than 100, oldest dropped first).
C1_RetainedAreLastAppended ==
  \A c \in Conversations :
    /\ Ids(ConversationMessages(log, c)) = LastN(appended[c], KeepLast)
    /\ Len(ConversationMessages(log, c)) <= KeepLast

\* A conversation has had more than 100 records appended, after an append by
\* this process, while the other conversation holds records too.
C1_Witness ==
  /\ recorded > 0
  /\ Len(appended["c1"]) > KeepLast
  /\ Len(ConversationMessages(log, "c1")) = KeepLast
  /\ ConversationMessages(log, "c2") # <<>>

\* C2: for an adopted incident whose cached count is C, a summary is generated
\* and a publish is attempted if and only if the aggregator returned at least
\* C + 5 messages.
C2_TriggerIffThreshold ==
  \A i \in DOMAIN invs :
    (invs[i].result # "none" /\ invs[i].summary # NoSummary)
      <=> (Len(invs[i].out) >= invs[i].last + SummaryThreshold)

\* With a cached count above 0, the trigger was evaluated on at least 5
\* messages and did not fire, and it fired on an earlier evaluation.
C2_Witness ==
  \E i, j \in DOMAIN invs :
    /\ invs[i].last > 0 /\ Len(invs[i].out) >= SummaryThreshold /\ invs[i].result = "none"
    /\ invs[j].result # "none" /\ Len(invs[j].out) = invs[j].last + SummaryThreshold

\* C3: the cache changes only in the step in which a publisher call returns
\* success, and that step sets the entry of the published incident to the
\* current count computed by that handling; a publisher success always leaves
\* the entry at that count.
C3_CacheWrittenOnlyOnPublishSuccess ==
  [][/\ cache' # cache =>
          \E h \in Handlers :
            /\ task[h].pc = "publish" /\ task'[h].pc = "idle"
            /\ invs'[task[h].inv].result = "ok"
            /\ cache' = CachePut(cache, task[h].detected_incident, task[h].current_count)
     /\ \A h \in Handlers :
          (task[h].pc = "publish" /\ task'[h].pc = "idle" /\ invs'[task[h].inv].result = "ok")
            => CacheGet(cache', task[h].detected_incident) = task[h].current_count
    ]_vars

\* A publish of a batch of more than 5 messages succeeded and the cache holds
\* the count of that evaluation.
C3_Witness ==
  \E i \in DOMAIN invs :
    /\ invs[i].result = "ok"
    /\ invs[i].cur > invs[i].last + SummaryThreshold
    /\ CacheGet(cache, invs[i].incident_id) = invs[i].cur

\* A publisher call of handler h returns in this step, with this result.
PublishReturns(h, res) ==
  /\ task[h].pc = "publish" /\ task'[h].pc = "idle"
  /\ invs'[task[h].inv].result = res

RetryStartsAtSameIndex ==
  \A j \in DOMAIN invs :
    LET i == PreviousForIncident(j)
    IN  (i # 0 /\ invs[i].result = "fail" /\ invs[j].last = invs[i].last)
          => /\ invs[j].fired <=> Len(invs[j].out) >= invs[i].last + SummaryThreshold
             /\ invs[j].fired => invs[j].batch = From(invs[j].out, invs[i].last)

C5_CacheNeverDecreases ==
  [][\A inc \in Incidents : CacheGet(cache', inc) >= CacheGet(cache, inc)]_vars

\* C6: the index ranges [last, current) of two successful publishes for one
\* incident never overlap.
C6_PublishedBatchesDisjoint ==
  \A i, j \in DOMAIN invs :
    (/\ i < j
     /\ invs[i].incident_id = invs[j].incident_id
     /\ invs[i].result = "ok" /\ invs[j].result = "ok")
      => (invs[i].cur <= invs[j].last \/ invs[j].cur <= invs[i].last)

\* C7 as stated: when the trigger is evaluated again for a conversation and
\* incident and the aggregator output is what it was at the previous
\* evaluation, the publisher is not called.
C7_NoPublishWithoutNewMessages ==
  \A j \in DOMAIN invs :
    LET i == Previous(j)
    IN  (i # 0 /\ invs[j].out = invs[i].out) => invs[j].result = "none"

\* C7 as amended: the same, unless the previous evaluation ended in a failed
\* publish (which is retried).
C7_NoRepublishAfterSuccessOrNoTrigger ==
  \A j \in DOMAIN invs :
    LET i == Previous(j)
    IN  (i # 0 /\ invs[j].out = invs[i].out /\ invs[i].result \in {"ok", "none"})
          => invs[j].result = "none"

\* A summary was published, a further user message of the conversation was
\* recorded that is not eligible, and the trigger did not fire on it.
C7_Witness ==
  \E j \in DOMAIN invs :
    LET i == Previous(j)
    IN  /\ i # 0 /\ invs[i].result = "ok"
        /\ invs[j].out = invs[i].out /\ invs[j].result = "none"
        /\ Len(UserMessages(ConversationMessages(log, invs[j].conversation_id)))
             > Len(invs[j].out)

Ascending(s) == \A i \in 1..(Len(s) - 1) : s[i].timestamp <= s[i + 1].timestamp

\* C8: the aggregator's output is a suffix of the conversation's records
\* sorted by timestamp ascending (a reordering of the conversation's records
\* with ascending timestamps) with the bot's records removed.
C8_AggregatedIsSuffixOfChronologicalUserMessages ==
  \A c \in Conversations :
    LET stored == ConversationMessages(log, c)
        chronological == SortByTimestamp(stored)
        users == UserMessages(chronological)
    IN  /\ Ascending(chronological)
        /\ IdSet(chronological) = IdSet(stored)
        /\ Len(chronological) = Len(stored)
        /\ \A inc \in Incidents : IsSuffix(Aggregated(inc, c), users)

\* The trigger was evaluated on an output that is a proper, non-empty suffix
\* of the user messages of a conversation that holds a bot record and is not
\* stored in timestamp order.
C8_Witness ==
  \E e \in {invs[i] : i \in DOMAIN invs} :
    LET c == e.conversation_id
        chronological == Chronological(c)
    IN  /\ e.out = Ids(Aggregated(e.incident_id, c))
        /\ e.out # <<>>
        /\ Len(e.out) < Len(UserMessages(chronological))
        /\ chronological # ConversationMessages(log, c)
        /\ UserMessages(chronological) # chronological

Mentioned(inc, chronological) ==
  \E i \in 1..Len(chronological) : MentionsIncident(chronological[i], inc)

\* C9 as stated: the aggregator's output is not empty when a user record is
\* among the last 20 chronological records of the conversation.
C9_NonEmptyWhenUserInLast20 ==
  \A c \in Conversations :
    LET chronological == Chronological(c)
    IN  UserMessages(LastN(chronological, Lookback)) # <<>>
          => \A inc \in Incidents : Aggregated(inc, c) # <<>>

\* C9 as amended: the same when no record of the conversation contains the
\* incident id (the 20-record fallback window is the one used).
C9_NonEmptyWhenUserInFallbackWindow ==
  \A c \in Conversations :
    LET chronological == Chronological(c)
    IN  UserMessages(LastN(chronological, Lookback)) # <<>>
          => \A inc \in Incidents :
               ~Mentioned(inc, chronological) => Aggregated(inc, c) # <<>>

\* The trigger was evaluated on a conversation of more than 20 records, none
\* containing the incident id, with a bot record among the last 20: the
\* output is the user records of the window.
C9_Witness ==
  \E e \in {invs[i] : i \in DOMAIN invs} :
    LET c == e.conversation_id
        chronological == Chronological(c)
    IN  /\ ~Mentioned(e.incident_id, chronological)
        /\ Len(chronological) > Lookback
        /\ e.out = Ids(Aggregated(e.incident_id, c))
        /\ e.out # <<>>
        /\ Len(e.out) < Lookback

\* C10: the classifier returns the incident id iff related, confidence >= 7
\* and id non-empty; the unknown-incident sentinel iff related and id empty;
\* and no incident in every other case.
C10_DecisionIsThreeWay ==
  analysis.returned # "pending" =>
    LET r == analysis.result
        adopt == ~r.error /\ r.is_incident_related /\ r.confidence >= MinConfidence
                   /\ r.incident_id # ""
        unknown == ~r.error /\ r.is_incident_related /\ r.incident_id = ""
    IN  /\ adopt <=> (analysis.returned = r.incident_id /\ analysis.returned \in Incidents)
        /\ unknown <=> analysis.returned = UNKNOWN_INCIDENT
        /\ (~adopt /\ ~unknown) <=> analysis.returned = None

\* The classifier returned no incident for a related answer with an id and a
\* confidence just below the threshold.
C10_Witness ==
  /\ analysis.returned = None
  /\ ~analysis.result.error
  /\ analysis.result.is_incident_related
  /\ analysis.result.incident_id # ""
  /\ analysis.result.confidence = MinConfidence - 1

\* How many times a stage occurs in the trace of a turn.
Count(trace, stage) == Cardinality({i \in 1..Len(trace) : trace[i] = stage})

\* C11: when the classifier's LLM call fails, the handling of that message
\* ends there: the classifier was called once, no clarification is sent, no
\* summary is generated, the publisher is not called and the handling does not
\* change the cache.
C11_ClassifierErrorIsNoIncident ==
  \A k \in DOMAIN turns :
    turns[k].result.error =>
      /\ turns[k].detected_incident = None
      /\ turns[k].stage # "pipeline"
      /\ Count(turns[k].trace, "classify") = 1
      /\ turns[k].trace = <<"append", "window", "classify">>
      /\ turns[k].clarification = "none"
      /\ turns[k].summary = NoSummary
      /\ turns[k].post_outcome = NoPost
      /\ ~turns[k].cache_changed

\* The classifier's call failed on a message that brought the conversation to
\* five eligible user messages for an incident the cache holds nothing of.
C11_Witness ==
  \E k \in DOMAIN turns :
    /\ turns[k].result.error
    /\ turns[k].stage # "pipeline"
    /\ Len(Aggregated("INC1", turns[k].conversation_id)) >= SummaryThreshold
    /\ CacheGet(cache, "INC1") = 0

\* C12: when the classifier's answer is related with an empty incident id, the
\* handling takes the clarification path only: after the classifier the one
\* further stage is the clarification; the aggregator, the generator and the
\* publisher do not run and the handling does not change the cache.
C12_UnknownIncidentOnlyClarifies ==
  \A k \in DOMAIN turns :
    (/\ ~turns[k].result.error
     /\ turns[k].result.is_incident_related
     /\ turns[k].result.incident_id = "")
      => /\ turns[k].detected_incident = UNKNOWN_INCIDENT
         /\ turns[k].trace = <<"append", "window", "classify", "clarify">>
         /\ turns[k].clarification # "none"
         /\ turns[k].summary = NoSummary
         /\ turns[k].post_outcome = NoPost
         /\ ~turns[k].cache_changed

\* A related answer without an id ended its handling on a message that brought
\* the conversation to five eligible user messages.
C12_Witness ==
  \E k \in DOMAIN turns :
    /\ ~turns[k].result.error
    /\ turns[k].result.is_incident_related
    /\ turns[k].result.incident_id = ""
    /\ turns[k].stage # "pipeline"
    /\ Len(Aggregated("INC1", turns[k].conversation_id)) >= SummaryThreshold

\* C13: when the classifier returns the unknown-incident sentinel for a
\* message whose sender's reference to that conversation was stored by
\* turn_state_factory, the clarification prompt has been sent once the
\* handling has ended.
C13_ClarificationIsSent ==
  \A k \in DOMAIN turns :
    (/\ turns[k].detected_incident = UNKNOWN_INCIDENT
     /\ turns[k].reference_stored
     /\ turns[k].stage # "pipeline")
      => turns[k].clarification = "sent"

\* C14: in the five-message scenario the trigger fires at most once, and once
\* the five messages are handled it has fired exactly once, with five messages
\* counted, and the publisher was called once, with that incident id.
C14_ScenarioFiresOnce ==
  LET firings == {i \in DOMAIN invs : invs[i].fired}
  IN  /\ Cardinality(firings) <= 1
      /\ (recorded = SummaryThreshold /\ \A h \in Handlers : task[h].pc = "idle")
           => /\ Cardinality(firings) = 1
              /\ \A i \in firings : /\ invs[i].incident_id = "INC1"
                                    /\ invs[i].cur = SummaryThreshold
                                    /\ invs[i].result = "ok"

\* C15: when the summary LLM call raises, the generator returns the fallback
\* text, which carries the incident id and the number of messages of the batch
\* it was given, and the publisher is called with that text.
C15_GeneratorFallbackIsPublished ==
  \A k \in DOMAIN turns :
    turns[k].summary_outcome.raised =>
      /\ turns[k].summary.kind = "fallback"
      /\ turns[k].summary.incident_id = turns[k].detected_incident
      /\ turns[k].summary.count = Len(turns[k].batch)
      /\ Count(turns[k].trace, "post") = 1
      /\ turns[k].stage = "pipeline" =>
           /\ task[turns[k].handler].pc = "publish"
           /\ task[turns[k].handler].summary = turns[k].summary

\* The summary LLM call raised on a batch of more than five messages and the
\* endpoint accepted the fallback text.
C15_Witness ==
  \E k \in DOMAIN turns :
    /\ turns[k].summary_outcome.raised
    /\ Len(turns[k].batch) > SummaryThreshold
    /\ turns[k].post_outcome.status = HttpOk
    /\ turns[k].success

\* C16: a handling in which the trigger fires makes exactly one generator call
\* and exactly one publisher call, with a text that is not empty, whatever the
\* summary LLM did; a handling in which it does not fire makes none.
C16_FiringPublishesOnceNonEmpty ==
  \A k \in DOMAIN turns :
    /\ turns[k].fired =>
         /\ turns[k].summary_outcome \in SummaryLLMOutcomes
         /\ Count(turns[k].trace, "generate") = 1
         /\ Count(turns[k].trace, "post") = 1
         /\ turns[k].summary # NoSummary
         /\ turns[k].summary.length > 0
    /\ ~turns[k].fired =>
         /\ Count(turns[k].trace, "post") = 0
         /\ turns[k].summary = NoSummary

\* The trigger fired, the summary LLM answered with an empty text, and the
\* publisher was called with the template text and returned.
C16_Witness ==
  \E k \in DOMAIN turns :
    /\ turns[k].fired
    /\ ~turns[k].summary_outcome.raised
    /\ turns[k].summary_outcome.length = 0
    /\ turns[k].summary.kind = "template"
    /\ turns[k].post_outcome # NoPost

\* C17: the publisher returns True if and only if the endpoint answered with
\* HTTP status 200, and False for any other status, connection error, timeout
\* or other exception; it issues one POST and returns a boolean.
C17_TrueIffStatus200 ==
  sending.returned # "pending" =>
    /\ sending.returned \in {"True", "False"}
    /\ sending.posts <= 1
    /\ sending.returned = "True"
         <=> (sending.outcome.kind = "response" /\ sending.outcome.status = HttpOk)

\* C19: a group message sent by the bot is appended to the log and its
\* handling ends there: the classifier is not invoked, nothing is published
\* and the handling does not change the cache; and no output of the aggregator
\* the trigger was evaluated on counts it.
C19_BotMessageRecordedNotAnalysed ==
  \A k \in DOMAIN turns :
    turns[k].user_name = "teams-copilot" =>
      /\ turns[k].id \in IdSet(log)
      /\ turns[k].trace = <<"append">>
      /\ turns[k].stage # "pipeline"
      /\ turns[k].result = NoResult
      /\ turns[k].summary = NoSummary
      /\ turns[k].post_outcome = NoPost
      /\ ~turns[k].cache_changed
      /\ \A i \in DOMAIN invs :
           \A j \in DOMAIN invs[i].out : invs[i].out[j] # turns[k].id

\* The bot's message lies between two user messages that the aggregator
\* returned to a handling whose trigger fired.
C19_Witness ==
  \E k \in DOMAIN turns :
    /\ turns[k].user_name = "teams-copilot"
    /\ \E i \in DOMAIN invs :
         /\ invs[i].fired
         /\ \E a, b \in DOMAIN invs[i].out :
              invs[i].out[a] < turns[k].id /\ turns[k].id < invs[i].out[b]

\* The order of the stages of a handling.
StageOrder == <<"append", "window", "classify", "aggregate", "trigger", "generate", "post">>

\* C20: every inbound group message is appended to the log, the bot being
\* mentioned or not; for a user message the stages run in the order append,
\* classifier (on the window read after the append), aggregator, trigger,
\* generator, publisher, and the log the classifier's window and the
\* aggregator read holds the message.
C20_AppendedBeforeItsOwnAnalysis ==
  \A k \in DOMAIN turns :
    /\ turns[k].id \in IdSet(log)
    /\ turns[k].visible
    /\ turns[k].trace # <<>> /\ turns[k].trace[1] = "append"
    /\ \/ IsPrefix(turns[k].trace, StageOrder)
       \/ turns[k].trace = <<"append", "window", "classify", "clarify">>
    /\ turns[k].user_name # "teams-copilot" => Len(turns[k].trace) >= 3

\* Two user messages were handled, one mentioning the bot and one not; the
\* handling of the one that does not ran every stage up to the publisher on
\* an output of the aggregator that holds the message.
C20_Witness ==
  \E k, m \in DOMAIN turns :
    /\ turns[k].bot_mentioned /\ ~turns[m].bot_mentioned
    /\ turns[k].user_name = "Alice" /\ turns[m].user_name = "Alice"
    /\ turns[m].trace = StageOrder
    /\ turns[m].post_outcome # NoPost
    /\ \E j \in DOMAIN turns[m].batch : turns[m].batch[j] = turns[m].id

\* What went wrong in a handling, if anything: a file access of the recorder,
\* of the window reader or of the aggregator, the classifier's call, the
\* generator's call, the POST.
Failed(t) ==
  \/ t.failure # "none"
  \/ t.result.error
  \/ t.summary_outcome.raised
  \/ t.post_outcome.kind \notin {"none", "response"}

\* C18: no exception raised in the pipeline leaves record_group_message: the
\* handling of every message, whatever failed in it, ends with the turn where
\* it is after a handling that did nothing, answering 200 when the bot is not
\* mentioned and going on to the original process when it is.
C18_NoPipelineErrorLeavesTheRecorder ==
  \A k \in DOMAIN turns :
    /\ turns[k].stage # "raised"
    /\ turns[k].stage \in {"pipeline", EndStage(turns[k].bot_mentioned), "processed"}
    /\ turns[k].stage = "processed" => turns[k].bot_mentioned
    /\ (Failed(turns[k]) /\ turns[k].failure # "none") => turns[k].stage # "pipeline"

\* The write of the log failed in the handling of a message that mentions the
\* bot and the original process ran for it; the POST of another handling
\* timed out and its turn was answered.
C18_Witness ==
  \E k, m \in DOMAIN turns :
    /\ turns[k].failure = "log_write"
    /\ turns[k].bot_mentioned
    /\ turns[k].stage = "processed"
    /\ turns[m].post_outcome.kind = "timeout"
    /\ turns[m].stage = "responded"

\* The user messages of conversation c1 recorded by this process after the
\* message whose handling last published a summary (after the start of the
\* process when none was published).
NewSinceLastSummary ==
  LET oks == {i \in DOMAIN invs : invs[i].result = "ok"}
      out == invs[Max(oks)].out
      last_id == IF oks = {} THEN clock - recorded
                 ELSE Max({out[j] : j \in DOMAIN out})
  IN  Cardinality({j \in DOMAIN appended["c1"] : appended["c1"][j] > last_id})

\* C21: in a conversation where the classifier adopts the same incident on
\* every user message and every publish succeeds, once a summary has been
\* published, five further user messages do not go by without another
\* publish: when the handling of every recorded message has ended, fewer than
\* five user messages have been recorded since the last published summary.
C21_FiveFurtherMessagesArePublished ==
  (/\ \A h \in Handlers : task[h].pc = "idle"
   /\ \E i \in DOMAIN invs : invs[i].result = "ok")
    => NewSinceLastSummary < SummaryThreshold

\* C22: the handlings of different inbound messages never interleave: while
\* the pipeline started for one message has not ended (it is suspended in the
\* classifier's call, in the clarification or in the POST), no step of the
\* pipeline runs for another message, so at most one handling is in progress.
C22_HandlingsNeverInterleave ==
  Cardinality({h \in Handlers : task[h].pc # "idle"}) <= 1

\* C23: the incident pipeline does not hold up the primary chat response: for
\* a group message that mentions the bot, the original process of the turn can
\* run while the classifier's call or the POST made for that message has not
\* returned.
C23_OriginalProcessNeedNotWait ==
  \A k \in DOMAIN turns :
    (/\ turns[k].bot_mentioned
     /\ turns[k].stage = "pipeline"
     /\ task[turns[k].handler].pc \in {"classify", "publish"})
      => ENABLED OriginalProcess(k)

\* C24: an error of reading the log is caught and the log is taken as empty:
\* when the recorder's read of the file fails (unreadable file, content that
\* does not parse) the new message is recorded all the same; when the window
\* reader's read fails the window is empty and the classifier is not called;
\* when the aggregator's read fails its output is empty and the trigger is not
\* evaluated.
C24_LogReadErrorIsEmptyLog ==
  \A k \in DOMAIN turns :
    LET ids == appended[turns[k].conversation_id]
    IN  /\ turns[k].failure = "log_read" =>
             \E j \in DOMAIN ids : ids[j] = turns[k].id
        /\ turns[k].failure = "window_read" =>
             /\ turns[k].trace = <<"append", "window">>
             /\ turns[k].result = NoResult
        /\ turns[k].failure = "aggregator_read" =>
             /\ ~turns[k].fired
             /\ turns[k].summary = NoSummary
             /\ Count(turns[k].trace, "trigger") = 0

\* C25 as stated: when the trigger fires, the records handed to the generator
\* are the aggregator's output from index last_summarized_count to
\* current_count, and they are exactly five.
C25_BatchIsSliceOfExactlyFive ==
  \A i \in DOMAIN invs :
    invs[i].fired =>
      /\ invs[i].batch = SubSeq(invs[i].out, invs[i].last + 1, invs[i].cur)
      /\ Len(invs[i].batch) = SummaryThreshold

\* C25 as amended: when the trigger fires, the records handed to the generator
\* are the aggregator's output from index last_summarized_count to
\* current_count, and they are five or more (current_count minus
\* last_summarized_count of them).
C25_BatchIsSliceOfFiveOrMore ==
  \A i \in DOMAIN invs :
    invs[i].fired =>
      /\ invs[i].cur = Len(invs[i].out)
      /\ invs[i].batch = SubSeq(invs[i].out, invs[i].last + 1, invs[i].cur)
      /\ Len(invs[i].batch) = invs[i].cur - invs[i].last
      /\ Len(invs[i].batch) >= SummaryThreshold

\* The trigger fired a second time, with a count at the last summary above 0,
\* on a batch that does not start at the head of the output.
C25_Witness ==
  \E i \in DOMAIN invs :
    /\ invs[i].fired /\ invs[i].last > 0
    /\ invs[i].batch # <<>> /\ invs[i].batch[1] # invs[i].out[1]
    /\ invs[i].result = "ok"

\* The records appended to the log since the process started.
AppendedSinceStart == Len(appended["c1"]) + Len(appended["c2"]) - (clock - recorded)

\* C26: a group message that does not mention the bot is recorded and its
\* turn is answered without going to the original process; a group message
\* that mentions the bot is recorded and goes to the original process once,
\* after record_group_message returned; a message of a personal chat is not
\* recorded and goes to the original process.
C26_RoutingByTypeAndMention ==
  /\ AppendedSinceStart
       = Cardinality({k \in DOMAIN turns : turns[k].conversation_type = "groupChat"})
  /\ \A k \in DOMAIN turns :
       LET t == turns[k]
           ids == appended[t.conversation_id]
           is_recorded == \E j \in DOMAIN ids : ids[j] = t.id
       IN  /\ (t.conversation_type = "groupChat" /\ ~t.bot_mentioned) =>
                /\ is_recorded
                /\ t.processed = 0
                /\ t.stage \in {"pipeline", "responded"}
           /\ (t.conversation_type = "groupChat" /\ t.bot_mentioned) =>
                /\ is_recorded
                /\ t.processed <= 1
                /\ t.stage \in {"pipeline", "returned", "processed"}
                /\ t.stage = "processed" <=> t.processed = 1
           /\ t.conversation_type = "personal" =>
                /\ ~is_recorded
                /\ t.trace = <<>>
                /\ t.processed <= 1
                /\ t.stage \in {"returned", "processed"}
                /\ t.stage = "processed" <=> t.processed = 1

\* A group message without a mention was answered, a group message with a
\* mention and a personal message went through the original process, and the
\* log holds the two group messages.
C26_Witness ==
  \E a, b, c \in DOMAIN turns :
    /\ turns[a].conversation_type = "groupChat" /\ ~turns[a].bot_mentioned
    /\ turns[a].stage = "responded" /\ turns[a].user_name = "Alice"
    /\ turns[b].conversation_type = "groupChat" /\ turns[b].bot_mentioned
    /\ turns[b].processed = 1 /\ Len(turns[b].trace) >= 3
    /\ turns[c].conversation_type = "personal" /\ turns[c].processed = 1
    /\ Len(log) = 2

\* C27: the count at the last summary that the trigger reads for an incident
\* in a conversation is the count of the last summary published for that
\* incident in that same conversation (0 when there was none): what was
\* handled for the incident in another conversation does not change it.
C27_CountIsPerConversation ==
  \A j \in DOMAIN invs :
    LET own == {i \in 1..(j - 1) : /\ invs[i].conversation_id = invs[j].conversation_id
                                   /\ invs[i].incident_id = invs[j].incident_id
                                   /\ invs[i].result = "ok"}
    IN  invs[j].last = IF own = {} THEN 0 ELSE invs[Max(own)].cur

\* C28: recording a message keeps what the aggregator returned: for every
\* incident and conversation, the output on the log before a step is a prefix
\* of the output on the log after it (so an index into the output keeps
\* denoting the same record and the eligible count does not decrease).
C28_AggregatedIsPrefixStable ==
  [][\A c \in Conversations, inc \in Incidents :
       LET before == Ids(GetIncidentRelatedMessages(log, inc, c))
           after == Ids(GetIncidentRelatedMessages(log', inc, c))
       IN  IsPrefix(before, after)]_vars

\* C29: the recorder's read-modify-write is one step for the other handlers:
\* under any interleaving of the handlings, the step that records a message
\* leaves the new record in the log together with every record the log held,
\* except the oldest record of that conversation when it already held 100, and
\* no other step changes the log.
C29_NoAppendIsLost ==
  [][IF clock' = clock THEN log' = log
     ELSE LET new == log'[Len(log')]
              cid == new.conversation_id
              held == ConversationMessages(log, cid)
          IN  /\ new.recorded_at = clock + 1
              /\ \A i \in DOMAIN log :
                   \/ log[i].recorded_at \in IdSet(log')
                   \/ /\ Len(held) = KeepLast
                      /\ log[i] = held[1]
    ]_vars

\* Two handlings are in progress at the same time, the messages of both are in
\* the log, and the conversation has had more than 100 records appended.
C29_Witness ==
  /\ \A h \in Handlers : task[h].pc # "idle"
  /\ recorded = 2
  /\ {clock - 1, clock} \subseteq IdSet(log)
  /\ \E c \in Conversations : Len(appended[c]) > KeepLast

\* C30: the step that records a message of one conversation, evicting or not,
\* leaves the records the log holds of every other conversation as they were:
\* the same records, with the same contents, in the same order.
C30_OtherConversationsUntouched ==
  [][clock' # clock =>
       LET cid == log'[Len(log')].conversation_id
       IN  \A c \in Conversations \ {cid} :
             ConversationMessages(log', c) = ConversationMessages(log, c)
    ]_vars

\* A message of c1 was recorded with the eviction of the oldest record of c1
\* (the second of the file), and the log holds the three records of c2, two
\* from before the process started and one recorded since, in that order.
C30_Witness ==
  /\ Len(appended["c1"]) = KeepLast + 1
  /\ Len(ConversationMessages(log, "c1")) = KeepLast
  /\ 2 \notin IdSet(log)
  /\ Len(appended["c2"]) = 3
  /\ Ids(ConversationMessages(log, "c2")) = appended["c2"]

====
